---- MODULE Spec2Model ----
(***************************************************************************)
(* Model of homework.py: the fitness-tracker calculation classes           *)
(* (InfoMessage, Training, Running, SportsWalking, Swimming), the          *)
(* dispatcher read_package, the function main and the driver loop of the   *)
(* __main__ block.                                                         *)
(*                                                                         *)
(* Numbers: Python computes the formulas in binary floating point.  The    *)
(* model computes them in exact rational arithmetic (a number is a         *)
(* normalised fraction [n, d] with d > 0), so every statement below about  *)
(* a numeric value is a statement about the real-number value of the       *)
(* formula, not about its last binary digit.  Sensor readings are Python   *)
(* ints, as in the packages list of the source.                            *)
(*                                                                         *)
(* Exceptions: an evaluation yields a record whose field exc is "none" or  *)
(* the name of the Python exception it raises.                             *)
(***************************************************************************)
EXTENDS Integers, Sequences, FiniteSets, TLC

VARIABLES
    LEN_STEP,   \* class attribute LEN_STEP of each class (km per action)
    packages,   \* the batch the driver iterates over
    idx,        \* position of the for loop in packages (1-based)
    pc,         \* "read" | "main" | "done" | "crashed"
    training,   \* value returned by the last read_package call
    out,        \* lines printed to standard output so far
    exc,        \* exception that escaped the driver, or "none"
    obj,        \* an instance under direct use of its methods
    via,        \* how obj was built: "read_package" | "direct" | "none"
    calls       \* the method calls made on obj and their results

vars == <<LEN_STEP, packages, idx, pc, training, out, exc, obj, via, calls>>

---------------------------------------------------------------------------
(* Bounds of the model.                                                    *)

MaxBatch == 2       \* longest batch the driver is run on
MaxLen == 5         \* longest readings list handed to read_package
MaxCalls == 3       \* number of method calls made on one instance

---------------------------------------------------------------------------
(* Exact arithmetic standing for Python's float arithmetic.                *)

Abs(i) == IF i < 0 THEN -i ELSE i

RECURSIVE GCD(_, _)
GCD(a, b) == IF b = 0 THEN a ELSE GCD(b, a % b)

\* the fraction n/d in lowest terms with a positive denominator (d # 0)
Frac(n, d) ==
    LET g == GCD(Abs(n), Abs(d))
        s == IF d < 0 THEN -1 ELSE 1
    IN  [n |-> s * (n \div g), d |-> Abs(d) \div g]

Num(i) == Frac(i, 1)

\* the sums and products cancel common factors before they multiply, which
\* keeps the intermediate integers small
QAdd(a, b) ==
    LET g == GCD(a.d, b.d)
    IN  Frac(a.n * (b.d \div g) + b.n * (a.d \div g), (a.d \div g) * b.d)
QSub(a, b) == QAdd(a, [n |-> -b.n, d |-> b.d])
QMul(a, b) ==
    LET g1 == GCD(Abs(a.n), b.d)
        g2 == GCD(Abs(b.n), a.d)
    IN  Frac((a.n \div g1) * (b.n \div g2), (a.d \div g2) * (b.d \div g1))
\* true division a / b for b # 0 (Python raises ZeroDivisionError for b = 0;
\* the callers test the divisor first)
QDiv(a, b) == QMul(a, Frac(b.d, b.n))
\* floor division a // b for b # 0: the largest integer not above a / b
QFloorDiv(a, b) == LET q == QDiv(a, b) IN Num(q.n \div q.d)
QLess(a, b) == a.n * b.d < b.n * a.d

\* the result of evaluating an expression: a value or a raised exception
Ok(q) == [exc |-> "none", val |-> q]
Raise(e) == [exc |-> e, val |-> Num(0)]

---------------------------------------------------------------------------
(* Class constants.                                                        *)

M_IN_KM == 1000
MIN_IN_HOUR == 60
Training_LEN_STEP == Frac(65, 100)
Swimming_LEN_STEP == Frac(138, 100)
Running_CALORIES_MEAN_SPEED_MULTIPLIER_FIRST == 18
Running_CALORIES_MEAN_SPEED_MULTIPLIER_SECOND == 20
SportsWalking_CALORIES_MEAN_SPEED_MULTIPLIER_FIRST == Frac(35, 1000)
SportsWalking_CALORIES_MEAN_SPEED_MULTIPLIER_SECOND == Frac(29, 1000)
Swimming_CALORIES_MEAN_SPEED_MULTIPLIER_FIRST == Frac(11, 10)
Swimming_CALORIES_MEAN_SPEED_MULTIPLIER_SECOND == Num(2)

Classes == {"Training", "Running", "SportsWalking", "Swimming"}

\* LEN_STEP as the class statements define it: Swimming overrides it,
\* Running and SportsWalking inherit Training's
InitLenStep ==
    [c \in Classes |->
        IF c = "Swimming" THEN Swimming_LEN_STEP ELSE Training_LEN_STEP]

None == [cls |-> "NoneType"]

---------------------------------------------------------------------------
(* Constructors.                                                           *)

Training_init(cls, data) ==
    [cls |-> cls, action |-> data[1], duration_h |-> data[2],
     weight |-> data[3]]

SportsWalking_init(cls, data) ==
    [cls |-> cls, action |-> data[1], duration_h |-> data[2],
     weight |-> data[3], height |-> data[4]]

\* mutant: the two pool parameters assigned in the wrong order
Swimming_init_Mut(cls, data) ==
    [cls |-> cls, action |-> data[1], duration_h |-> data[2],
     weight |-> data[3], length_pool_m |-> data[5], count_pool |-> data[4]]

Swimming_init(cls, data) ==
    [cls |-> cls, action |-> data[1], duration_h |-> data[2],
     weight |-> data[3], length_pool_m |-> data[4], count_pool |-> data[5]]

\* number of positional parameters of cls.__init__ besides self
Arity(cls) ==
    CASE cls = "SportsWalking" -> 4
      [] cls = "Swimming" -> 5
      [] OTHER -> 3

\* the call cls(*data), cls being a class or None
New(cls, data) ==
    IF cls = "NoneType"
    THEN [exc |-> "TypeError", msg |-> "'NoneType' object is not callable",
          obj |-> None]
    ELSE IF Len(data) < Arity(cls)
    THEN [exc |-> "TypeError",
          msg |-> "__init__() missing required positional arguments",
          obj |-> None]
    ELSE IF Len(data) > Arity(cls)
    THEN [exc |-> "TypeError",
          msg |-> "__init__() takes fewer positional arguments than given",
          obj |-> None]
    ELSE [exc |-> "none", msg |-> "",
          obj |-> CASE cls = "SportsWalking" -> SportsWalking_init(cls, data)
                    [] cls = "Swimming" -> Swimming_init(cls, data)
                    [] OTHER -> Training_init(cls, data)]

---------------------------------------------------------------------------
(* Methods of Training and its subclasses; t is the instance (self).       *)

Training_get_distance(t) ==
    Ok(QDiv(QMul(Num(t.action), LEN_STEP[t.cls]), Num(M_IN_KM)))

get_distance(t) == Training_get_distance(t)

Training_get_mean_speed(t) ==
    LET dist == get_distance(t)
    IN  IF t.duration_h = 0 THEN Raise("ZeroDivisionError")
        ELSE Ok(QDiv(dist.val, Num(t.duration_h)))

\* mutant: Swimming without its own get_mean_speed
Swimming_get_mean_speed_Mut(t) ==
    LET dist == get_distance(t)
    IN  IF t.duration_h = 0 THEN Raise("ZeroDivisionError")
        ELSE Ok(QDiv(dist.val, Num(t.duration_h)))

Swimming_get_mean_speed(t) ==
    IF t.duration_h = 0 THEN Raise("ZeroDivisionError")
    ELSE Ok(QDiv(QDiv(Num(t.length_pool_m * t.count_pool), Num(M_IN_KM)),
                 Num(t.duration_h)))

get_mean_speed(t) ==
    IF t.cls = "Swimming" THEN Swimming_get_mean_speed(t)
    ELSE Training_get_mean_speed(t)

Training_get_spent_calories(t) == Raise("NotImplementedError")

Running_get_spent_calories(t) ==
    LET speed == get_mean_speed(t)
    IN  IF speed.exc # "none" THEN speed
        ELSE Ok(QMul(QDiv(QMul(QSub(QMul(Num(Running_CALORIES_MEAN_SPEED_MULTIPLIER_FIRST),
                                         speed.val),
                                    Num(Running_CALORIES_MEAN_SPEED_MULTIPLIER_SECOND)),
                               Num(t.weight)),
                          Num(M_IN_KM)),
                     Num(t.duration_h * MIN_IN_HOUR)))

\* mutant: true division where the source divides with //
SportsWalking_get_spent_calories_Mut(t) ==
    LET speed == get_mean_speed(t)
    IN  IF speed.exc # "none" THEN speed
        ELSE IF t.height = 0 THEN Raise("ZeroDivisionError")
        ELSE Ok(QMul(QAdd(QMul(SportsWalking_CALORIES_MEAN_SPEED_MULTIPLIER_FIRST,
                               Num(t.weight)),
                          QMul(QMul(QDiv(QMul(speed.val, speed.val),
                                         Num(t.height)),
                                    SportsWalking_CALORIES_MEAN_SPEED_MULTIPLIER_SECOND),
                               Num(t.weight))),
                     Num(t.duration_h * MIN_IN_HOUR)))

SportsWalking_get_spent_calories(t) ==
    LET speed == get_mean_speed(t)
    IN  IF speed.exc # "none" THEN speed
        ELSE IF t.height = 0 THEN Raise("ZeroDivisionError")
        ELSE Ok(QMul(QAdd(QMul(SportsWalking_CALORIES_MEAN_SPEED_MULTIPLIER_FIRST,
                               Num(t.weight)),
                          QMul(QMul(QFloorDiv(QMul(speed.val, speed.val),
                                              Num(t.height)),
                                    SportsWalking_CALORIES_MEAN_SPEED_MULTIPLIER_SECOND),
                               Num(t.weight))),
                     Num(t.duration_h * MIN_IN_HOUR)))

Swimming_get_spent_calories(t) ==
    LET speed == get_mean_speed(t)
    IN  IF speed.exc # "none" THEN speed
        ELSE Ok(QMul(QMul(QAdd(speed.val,
                               Swimming_CALORIES_MEAN_SPEED_MULTIPLIER_FIRST),
                          Swimming_CALORIES_MEAN_SPEED_MULTIPLIER_SECOND),
                     Num(t.weight)))

\* mutant: Running without its own get_spent_calories
get_spent_calories_Mut(t) ==
    CASE t.cls = "SportsWalking" -> SportsWalking_get_spent_calories(t)
      [] t.cls = "Swimming" -> Swimming_get_spent_calories(t)
      [] OTHER -> Training_get_spent_calories(t)

\* method resolution: the subclass override, else the base method
get_spent_calories(t) ==
    CASE t.cls = "Running" -> Running_get_spent_calories(t)
      [] t.cls = "SportsWalking" -> SportsWalking_get_spent_calories(t)
      [] t.cls = "Swimming" -> Swimming_get_spent_calories(t)
      [] OTHER -> Training_get_spent_calories(t)

---------------------------------------------------------------------------
(* InfoMessage.                                                            *)

InfoMessage(training_type, duration, distance, speed, calories) ==
    [training_type |-> training_type, duration |-> duration,
     distance |-> distance, speed |-> speed, calories |-> calories]

NoInfo == InfoMessage("", 0, Num(0), Num(0), Num(0))

\* '{:.3f}': the value rounded to thousandths (ties to even), written as
\* sign, integer part and exactly three fractional digits
Fmt3(q) ==
    LET a == Abs(q.n) * 1000
        t == a \div q.d
        r == a % q.d
        u == IF 2 * r > q.d \/ (2 * r = q.d /\ t % 2 = 1) THEN t + 1 ELSE t
    IN  [neg |-> q.n < 0, whole |-> u \div 1000, frac |-> u % 1000]

\* the fields in declaration order, as asdict(self).values() yields them
get_message(info) ==
    <<info.training_type, Fmt3(Num(info.duration)), Fmt3(info.distance),
      Fmt3(info.speed), Fmt3(info.calories)>>

\* mutant: speed and distance passed to InfoMessage in the wrong order
show_training_info_Mut(t) ==
    LET dist == get_distance(t)
        speed == get_mean_speed(t)
        cal == get_spent_calories(t)
    IN  IF dist.exc # "none" THEN [exc |-> dist.exc, info |-> NoInfo]
        ELSE IF speed.exc # "none" THEN [exc |-> speed.exc, info |-> NoInfo]
        ELSE IF cal.exc # "none" THEN [exc |-> cal.exc, info |-> NoInfo]
        ELSE [exc |-> "none",
              info |-> InfoMessage(t.cls, t.duration_h, speed.val,
                                   dist.val, cal.val)]

show_training_info(t) ==
    LET dist == get_distance(t)
        speed == get_mean_speed(t)
        cal == get_spent_calories(t)
    IN  IF dist.exc # "none" THEN [exc |-> dist.exc, info |-> NoInfo]
        ELSE IF speed.exc # "none" THEN [exc |-> speed.exc, info |-> NoInfo]
        ELSE IF cal.exc # "none" THEN [exc |-> cal.exc, info |-> NoInfo]
        ELSE [exc |-> "none",
              info |-> InfoMessage(t.cls, t.duration_h, dist.val,
                                   speed.val, cal.val)]

---------------------------------------------------------------------------
(* Dispatcher and main.                                                    *)

\* the dict training_type and its get method: a class, or None
training_type_get(workout_type) ==
    CASE workout_type = "SWM" -> "Swimming"
      [] workout_type = "RUN" -> "Running"
      [] workout_type = "WLK" -> "SportsWalking"
      [] OTHER -> "NoneType"

\* mutant: the except clause without TypeError
Caught_Mut == {"ValueError", "AttributeError"}

Caught == {"ValueError", "TypeError", "AttributeError"}

ErrorNotice(cause) == [kind |-> "error", cause |-> cause, msg |-> <<>>]
SummaryLine(msg) == [kind |-> "summary", cause |-> "", msg |-> msg]

\* ret: the returned value; printed: the lines printed; exc: what escapes
read_package(workout_type, data) ==
    LET r == New(training_type_get(workout_type), data)
    IN  IF r.exc = "none"
        THEN [ret |-> r.obj, printed |-> <<>>, exc |-> "none"]
        ELSE IF r.exc \in Caught
        THEN [ret |-> None, printed |-> <<ErrorNotice(r.msg)>>,
              exc |-> "none"]
        ELSE [ret |-> None, printed |-> <<>>, exc |-> r.exc]

\* mutant: main swallows the errors of show_training_info
main_Mut(t) ==
    IF t = None THEN [printed |-> <<>>, exc |-> "AttributeError"]
    ELSE LET r == show_training_info(t)
         IN  IF r.exc # "none" THEN [printed |-> <<>>, exc |-> "none"]
             ELSE [printed |-> <<SummaryLine(get_message(r.info))>>,
                   exc |-> "none"]

main(t) ==
    IF t = None THEN [printed |-> <<>>, exc |-> "AttributeError"]
    ELSE LET r == show_training_info(t)
         IN  IF r.exc # "none" THEN [printed |-> <<>>, exc |-> r.exc]
             ELSE [printed |-> <<SummaryLine(get_message(r.info))>>,
                   exc |-> "none"]

---------------------------------------------------------------------------
(* Inputs.                                                                 *)

Codes == {"SWM", "RUN", "WLK", "GGR"}

\* readings the driver is run on, by position
Val(i) ==
    CASE i = 1 -> {9000}
      [] i = 2 -> {0, 1}
      [] i = 3 -> {75}
      [] i = 4 -> {180}
      [] i = 5 -> {40}
      [] OTHER -> {1}

SeqsOver(V(_), n) ==
    {s \in [1..n -> UNION {V(i) : i \in 1..n}] : \A i \in 1..n : s[i] \in V(i)}

DataLists == UNION {SeqsOver(Val, n) : n \in 0..MaxLen}

Pairs == Codes \X DataLists

Batches == UNION {[1..n -> Pairs] : n \in 0..MaxBatch}

\* readings the instances under direct use are built from, by position
ObjVal(i) ==
    CASE i = 1 -> {720, 9000, 40000}
      [] i = 2 -> {0, 1, 2}
      [] i = 3 -> {75, 80}
      [] i = 4 -> {-180, 0, 25, 180}
      [] i = 5 -> {40}
      [] OTHER -> {1}

\* instances the dispatcher returns
Dispatched ==
    {read_package(c, d).ret :
        c \in {"SWM", "RUN", "WLK"}, d \in SeqsOver(ObjVal, 3)
                   \cup SeqsOver(ObjVal, 4) \cup SeqsOver(ObjVal, 5)} \ {None}

\* instances built by calling a class directly
Direct ==
    {New(c, d).obj : c \in Classes, d \in SeqsOver(ObjVal, 3)
                   \cup SeqsOver(ObjVal, 4) \cup SeqsOver(ObjVal, 5)} \ {None}

---------------------------------------------------------------------------
(* The driver: the for loop of the __main__ block.                         *)

\* where the for loop stands once pair i - 1 is finished
LoopPc(batch, i) == IF i > Len(batch) THEN "done" ELSE "read"

Init ==
    /\ LEN_STEP = InitLenStep
    /\ packages \in Batches
    /\ idx = 1
    /\ pc = LoopPc(packages, 1)
    /\ training = None
    /\ out = <<>>
    /\ exc = "none"
    /\ obj = None
    /\ via = "none"
    /\ calls = <<>>

\* training = read_package(workout_type, data)
ReadPackage ==
    /\ pc = "read"
    /\ LET r == read_package(packages[idx][1], packages[idx][2])
       IN  /\ training' = r.ret
           /\ out' = out \o r.printed
           /\ exc' = r.exc
           /\ pc' = IF r.exc = "none" THEN "main" ELSE "crashed"
    /\ UNCHANGED <<LEN_STEP, packages, idx, obj, via, calls>>

\* main(training), then the loop moves on
Main ==
    /\ pc = "main"
    /\ LET r == main(training)
       IN  /\ out' = out \o r.printed
           /\ exc' = r.exc
           /\ pc' = IF r.exc = "none" THEN LoopPc(packages, idx + 1)
                    ELSE "crashed"
           /\ idx' = IF r.exc = "none" THEN idx + 1 ELSE idx
    /\ UNCHANGED <<LEN_STEP, packages, training, obj, via, calls>>

Next == ReadPackage \/ Main

Spec == Init /\ [][Next]_vars

---------------------------------------------------------------------------
(* Direct use of one instance: its methods called in any order.            *)

ObjInit ==
    /\ LEN_STEP = InitLenStep
    /\ packages = <<>>
    /\ idx = 1
    /\ pc = "done"
    /\ training = None
    /\ out = <<>>
    /\ exc = "none"
    /\ \/ via = "read_package" /\ obj \in Dispatched
       \/ via = "direct" /\ obj \in Direct
    /\ calls = <<>>

Call(m, res) ==
    /\ obj # None
    /\ Len(calls) < MaxCalls
    /\ calls' = Append(calls, [m |-> m, res |-> res])

\* mutant: get_distance consumes the action count it has reported
CallGetDistance_Mut ==
    /\ Call("get_distance", get_distance(obj))
    /\ obj' = [obj EXCEPT !.action = 0]
    /\ UNCHANGED <<LEN_STEP, packages, idx, pc, training, out, exc, via>>

CallGetDistance ==
    /\ Call("get_distance", get_distance(obj))
    /\ UNCHANGED <<LEN_STEP, packages, idx, pc, training, out, exc, obj, via>>

CallGetMeanSpeed ==
    /\ Call("get_mean_speed", get_mean_speed(obj))
    /\ UNCHANGED <<LEN_STEP, packages, idx, pc, training, out, exc, obj, via>>

CallGetSpentCalories ==
    /\ Call("get_spent_calories", get_spent_calories(obj))
    /\ UNCHANGED <<LEN_STEP, packages, idx, pc, training, out, exc, obj, via>>

CallShowTrainingInfo ==
    /\ Call("show_training_info", show_training_info(obj))
    /\ UNCHANGED <<LEN_STEP, packages, idx, pc, training, out, exc, obj, via>>

ObjNext ==
    \/ CallGetDistance
    \/ CallGetMeanSpeed
    \/ CallGetSpentCalories
    \/ CallShowTrainingInfo

ObjSpec == ObjInit /\ [][ObjNext]_vars

---------------------------------------------------------------------------
(* Vocabulary of the properties.                                           *)

KnownCode(c) == c \in {"SWM", "RUN", "WLK"}

\* number of readings each code requires
Required(c) ==
    CASE c = "SWM" -> 5
      [] c = "RUN" -> 3
      [] c = "WLK" -> 4
      [] OTHER -> -1

\* the pair p = <<code, readings>> resolves to an activity model
Resolves(p) == KnownCode(p[1]) /\ Len(p[2]) = Required(p[1])

\* the instance a resolving pair stands for, field by field
Expected(p) ==
    CASE p[1] = "SWM" ->
            [cls |-> "Swimming", action |-> p[2][1], duration_h |-> p[2][2],
             weight |-> p[2][3], length_pool_m |-> p[2][4],
             count_pool |-> p[2][5]]
      [] p[1] = "WLK" ->
            [cls |-> "SportsWalking", action |-> p[2][1],
             duration_h |-> p[2][2], weight |-> p[2][3], height |-> p[2][4]]
      [] OTHER ->
            [cls |-> "Running", action |-> p[2][1], duration_h |-> p[2][2],
             weight |-> p[2][3]]

\* the readings of a resolving pair respect the data model: positive
\* duration and, for walking, a non-zero height
ValidReadings(p) ==
    Resolves(p) => /\ p[2][2] > 0
                   /\ (p[1] = "WLK" => p[2][4] # 0)

Variants == {"Running", "SportsWalking", "Swimming"}

CallsOf(m) == {i \in 1..Len(calls) : calls[i].m = m}

\* the formulas of obj compute without a division by zero
Computable(o) ==
    /\ o.duration_h # 0
    /\ (o.cls = "SportsWalking" => o.height # 0)

---------------------------------------------------------------------------
(* C1: a pair that fails to resolve (unknown code, wrong number of         *)
(* readings) does not abort the batch: the driver never stops with an      *)
(* escaped exception on such a pair, so the pairs after it are processed.  *)
C1_FailedPairDoesNotAbort ==
    pc = "crashed" => Resolves(packages[idx])

---------------------------------------------------------------------------
(* C2: read_package with a known code and the required number of readings *)
(* returns an instance of exactly the mapped class whose fields are the    *)
(* readings in positional order, prints nothing and raises nothing.        *)
C2_KnownCodeBuildsVariant ==
    [][(pc = "read" /\ Resolves(packages[idx]))
        => /\ training' = Expected(packages[idx])
           /\ out' = out
           /\ exc' = "none"
           /\ pc' = "main"]_vars

C2_Witness ==
    /\ pc = "main"
    /\ idx = 2
    /\ packages[idx][1] = "SWM"
    /\ training.cls = "Swimming"
    /\ training.length_pool_m = 180
    /\ training.count_pool = 40

---------------------------------------------------------------------------
(* C3: no exception escapes read_package; for an unknown code or a wrong   *)
(* number of readings it prints exactly one error notice carrying the      *)
(* cause and returns None; it returns an activity model only for a known   *)
(* code with the required number of readings.                              *)
C3_ReadPackageNeverRaises ==
    [][pc = "read"
        => LET p == packages[idx]
           IN  /\ exc' = "none"
               /\ pc' = "main"
               /\ (training' # None) <=> Resolves(p)
               /\ Resolves(p) => out' = out
               /\ ~Resolves(p) =>
                    /\ Len(out') = Len(out) + 1
                    /\ SubSeq(out', 1, Len(out)) = out
                    /\ out'[Len(out')].kind = "error"
                    /\ out'[Len(out')].cause =
                         IF ~KnownCode(p[1])
                         THEN "'NoneType' object is not callable"
                         ELSE IF Len(p[2]) < Required(p[1])
                         THEN "__init__() missing required positional arguments"
                         ELSE "__init__() takes fewer positional arguments than given"]_vars

C3_Witness ==
    /\ pc = "main"
    /\ KnownCode(packages[idx][1])
    /\ ~Resolves(packages[idx])
    /\ training = None
    /\ Len(out) = idx
    /\ out[Len(out)].kind = "error"

---------------------------------------------------------------------------
(* C4: when the driver has stopped, its output holds, in input order,      *)
(* exactly one line per pair of the batch: a summary line for a pair that  *)
(* resolves and an error notice for a pair that does not.  (Stated for     *)
(* batches whose resolving pairs carry valid readings, so that no formula  *)
(* raises.)                                                                *)
C4_OneLinePerPairInOrder ==
    (pc \in {"done", "crashed"}
        /\ \A i \in 1..Len(packages) : ValidReadings(packages[i]))
    => /\ Len(out) = Len(packages)
       /\ \A i \in 1..Len(packages) :
            IF Resolves(packages[i])
            THEN /\ out[i].kind = "summary"
                 /\ out[i].msg[1] = Expected(packages[i]).cls
            ELSE out[i].kind = "error"

---------------------------------------------------------------------------
(* C5: NotImplementedError is unreachable through the dispatcher: an       *)
(* instance returned by read_package is of a concrete variant, and no call *)
(* of get_spent_calories or show_training_info on it raises                *)
(* NotImplementedError; the error arises only on an instance of Training   *)
(* itself, whose get_spent_calories always raises it.                      *)
C5_NotImplementedUnreachable ==
    /\ via = "read_package" => obj.cls \in Variants
    /\ \A i \in 1..Len(calls) :
        /\ calls[i].res.exc = "NotImplementedError"
            => (via = "direct" /\ obj.cls = "Training")
        /\ (calls[i].m = "get_spent_calories" /\ obj.cls = "Training")
            => calls[i].res.exc = "NotImplementedError"

C5_Witness ==
    /\ via = "read_package"
    /\ obj.cls = "Running"
    /\ \E i \in CallsOf("get_spent_calories") : calls[i].res.exc = "none"
    /\ \E i \in CallsOf("show_training_info") : calls[i].res.exc = "none"

---------------------------------------------------------------------------
(* C6: show_training_info on a variant instance returns a record whose     *)
(* training_type is the variant's name, whose duration is the instance's   *)
(* duration unchanged and whose distance, speed and calories are the       *)
(* instance's get_distance, get_mean_speed and get_spent_calories results  *)
(* (it returns one whenever the formulas compute).                         *)
C6_SummaryFields ==
    \A i \in CallsOf("show_training_info") :
        LET r == calls[i].res
        IN  /\ (obj.cls \in Variants /\ Computable(obj)) => r.exc = "none"
            /\ r.exc = "none" =>
                /\ obj.cls \in Variants
                /\ r.info.training_type = obj.cls
                /\ r.info.duration = obj.duration_h
                /\ r.info.distance = get_distance(obj).val
                /\ r.info.speed = get_mean_speed(obj).val
                /\ r.info.calories = get_spent_calories(obj).val
                /\ \A j \in CallsOf("get_distance") :
                        r.info.distance = calls[j].res.val
                /\ \A j \in CallsOf("get_mean_speed") :
                        r.info.speed = calls[j].res.val
                /\ \A j \in CallsOf("get_spent_calories") :
                        r.info.calories = calls[j].res.val

C6_Witness ==
    /\ obj.cls = "SportsWalking"
    /\ obj.duration_h = 2
    /\ \E i \in CallsOf("show_training_info") : calls[i].res.exc = "none"
    /\ CallsOf("get_mean_speed") # {}

---------------------------------------------------------------------------
(* C7: no method call changes a field of the instance or a class's step    *)
(* length, and two calls of the same method on the same instance return    *)
(* the same result.                                                        *)
C7_Immutable ==
    /\ [][obj' = obj /\ LEN_STEP' = LEN_STEP]_vars
    /\ [](\A i, j \in 1..Len(calls) :
            calls[i].m = calls[j].m => calls[i].res = calls[j].res)

C7_Witness ==
    /\ Len(calls) = 3
    /\ calls[1].m = "get_distance"
    /\ calls[2].m = "show_training_info"
    /\ calls[3].m = "get_distance"
    /\ calls[2].res.exc = "none"

---------------------------------------------------------------------------
(* C8: for a Swimming instance, mean speed and calories do not depend on   *)
(* the action count: the instance with any other action count has the same *)
(* mean speed and calories, and a different distance, which is             *)
(* action * 1.38 / 1000.                                                   *)
C8_SwimSpeedIgnoresAction ==
    obj.cls = "Swimming" =>
        /\ get_distance(obj).val = Frac(obj.action * 138, 100 * 1000)
        /\ \A a \in ObjVal(1) \cup {obj.action + 1} :
            LET o2 == [obj EXCEPT !.action = a]
            IN  /\ get_mean_speed(o2) = get_mean_speed(obj)
                /\ get_spent_calories(o2) = get_spent_calories(obj)
                /\ a # obj.action => get_distance(o2) # get_distance(obj)
                /\ \A i \in CallsOf("get_mean_speed") :
                        calls[i].res = get_mean_speed(o2)
                /\ \A i \in CallsOf("get_spent_calories") :
                        calls[i].res = get_spent_calories(o2)

C8_Witness ==
    /\ obj.cls = "Swimming"
    /\ \E i \in CallsOf("get_mean_speed") : calls[i].res.exc = "none"
    /\ \E i \in CallsOf("get_spent_calories") : calls[i].res.exc = "none"
    /\ CallsOf("get_distance") # {}

---------------------------------------------------------------------------
(* C9: a pair with a known code, the required number of readings and       *)
(* duration 0 is accepted by read_package without an error notice, and     *)
(* main then stops the driver with an escaped ZeroDivisionError, printing  *)
(* nothing.                                                                *)
C9_ZeroDurationPropagates ==
    [][(Resolves(packages[idx]) /\ packages[idx][2][2] = 0)
        => /\ pc = "read" => /\ training' = Expected(packages[idx])
                             /\ out' = out
                             /\ pc' = "main"
           /\ pc = "main" => /\ pc' = "crashed"
                             /\ exc' = "ZeroDivisionError"
                             /\ out' = out
           /\ pc # "crashed"]_vars

C9_Witness ==
    /\ pc = "crashed"
    /\ exc = "ZeroDivisionError"
    /\ training # None
    /\ training.duration_h = 0
    /\ idx = 2

---------------------------------------------------------------------------
(* C10: SportsWalking.get_spent_calories is                                *)
(* (0.035 * weight + floor(speed^2 / height) * 0.029 * weight)             *)
(* * (duration * 60), the floor taken of speed^2 / height alone; when      *)
(* speed^2 < height it is 0.035 * weight * duration * 60, and              *)
(* WLK [9000, 1, 75, 180] gives 157.5.                                     *)
C10_WalkingCalories ==
    obj.cls = "SportsWalking" =>
        \A i \in CallsOf("get_spent_calories") :
            LET r == calls[i].res
                s == get_mean_speed(obj).val
                w == obj.weight
                h == obj.height
                \* floor(s^2 / h) in integer arithmetic
                k == IF h > 0 THEN (s.n * s.n) \div (s.d * s.d * h)
                     ELSE (-(s.n * s.n)) \div (s.d * s.d * (-h))
            IN  /\ r.exc = "none" <=> Computable(obj)
                /\ r.exc = "none" =>
                    /\ r.val = Frac((35 * w + k * 29 * w) * obj.duration_h * 60,
                                    1000)
                    /\ QLess(QMul(s, s), Num(h))
                        => r.val = Frac(35 * w * obj.duration_h * 60, 1000)
                    /\ (obj.action = 9000 /\ obj.duration_h = 1
                            /\ w = 75 /\ h = 180)
                        => r.val = Frac(315, 2)

C10_Witness ==
    /\ obj.cls = "SportsWalking"
    /\ obj.action = 40000
    /\ obj.duration_h = 1
    /\ obj.height = 180
    /\ \E i \in CallsOf("get_spent_calories") :
            /\ calls[i].res.exc = "none"
            /\ calls[i].res.val = Frac(122 * obj.weight * 60, 1000)

====
